---- MODULE Spec2Model ----
(***************************************************************************)
(* Outgoing batch keeper of the gravity module                             *)
(* (module/x/gravity/keeper/batch.go).                                     *)
(*                                                                         *)
(* The KV store is modelled by three variables: the unbatched pool of      *)
(* SendToEthereum records, the outgoing tx store holding BatchTx records   *)
(* under their (token contract, nonce) key, and the cell holding the last  *)
(* outgoing batch nonce as 8 big-endian bytes.  A Go panic (nil pointer    *)
(* dereference) stops the handler where it happens: the variables then     *)
(* hold the writes made up to that point and `panicked` is set; no handler *)
(* runs after a panic.                                                     *)
(***************************************************************************)
EXTENDS Integers, Sequences, FiniteSets, TLC

\* ---------------------------------------------------------------- bounds
MaxTx == 2          \* SendToEthereum records ever added to the pool
MaxNonce == 2       \* batches ever created
MaxHeight == 3      \* block heights 1..MaxHeight

Tokens == {1, 2}            \* token contracts, ordered as their key bytes
Fees == {1, 2}              \* fee amounts of the transfers
MaxElements == {0, 1, 2}    \* maxElements arguments
Nonces == 1..MaxNonce
Nil == [nil |-> TRUE]

VARIABLES
    pool,           \* unbatched SendToEthereum records
    outgoingTx,     \* function: <<token, nonce>> -> BatchTx
    nonceStore,     \* bytes under LastOutgoingBatchNonceKey, <<>> when absent
    lastId,         \* id of the newest SendToEthereum
    blockHeight,    \* ctx.BlockHeight()
    observed,       \* GetLastObservedEthereumBlockHeight: (CosmosHeight, EthereumHeight)
    params,         \* GetParams: block times and target batch timeout, in ms
    slashStore,     \* bytes under LastSlashedBatchBlockKey, <<>> when absent
    panicked,       \* the last handler ended in a panic
    last,           \* the last handler call, its result, the state before it,
                    \* and for a cancellation of the batch that the call
                    \* before it built, that batch's nonce
    created,        \* nonces of the batches created, in creation order
    executed        \* ids of the transfers of executed batches

vars == <<pool, outgoingTx, nonceStore, lastId, blockHeight, observed, params,
          slashStore, panicked, last, created, executed>>

\* ------------------------------------------------------------ parameters
AverageBlockTime == 5000
AverageEthereumBlockTime == 15000
TargetBatchTimeout == 43200000

DefaultParams ==
    [AverageBlockTime |-> AverageBlockTime,
     AverageEthereumBlockTime |-> AverageEthereumBlockTime,
     TargetBatchTimeout |-> TargetBatchTimeout]

\* ---------------------------------------------------------- conversions
\* common.Address.Hex(): the address as a "0x"-prefixed string
Hex(addr) == <<"0x", addr>>

\* common.HexToAddress: the address a hex string denotes
HexToAddress(s) == s[2]

RECURSIVE Uint64ToBigEndian_(_, _)
Uint64ToBigEndian_(n, len) ==
    IF len = 0 THEN <<>>
    ELSE Append(Uint64ToBigEndian_(n \div 256, len - 1), n % 256)

\* sdk.Uint64ToBigEndian: 8 bytes, most significant first
Uint64ToBigEndian(n) == Uint64ToBigEndian_(n, 8)

RECURSIVE BigEndianUint64_(_, _)
BigEndianUint64_(bz, acc) ==
    IF bz = <<>> THEN acc
    ELSE BigEndianUint64_(Tail(bz), acc * 256 + Head(bz))

\* binary.BigEndian.Uint64
BigEndianUint64(bz) == BigEndianUint64_(bz, 0)

\* ------------------------------------------------------- store iteration
\* types.MakeBatchTxKey: token contract address, then big-endian nonce
MakeBatchTxKey(token, nonce) == <<token, nonce>>

KeyLess(a, b) == a[1] < b[1] \/ (a[1] = b[1] /\ a[2] < b[2])

RECURSIVE SortKeys(_)
SortKeys(ks) ==
    IF ks = {} THEN <<>>
    ELSE LET m == CHOOSE k \in ks : \A o \in ks : o = k \/ KeyLess(k, o)
         IN <<m>> \o SortKeys(ks \ {m})

\* IterateOutgoingTxs: the BatchTx records in ascending key order
IterateOutgoingTxs(store) ==
    LET ks == SortKeys(DOMAIN store)
    IN [i \in 1..Len(ks) |-> store[ks[i]]]

\* pool index order: fee amount, then id
SteLess(a, b) ==
    \/ a.Erc20Fee.Amount < b.Erc20Fee.Amount
    \/ (a.Erc20Fee.Amount = b.Erc20Fee.Amount /\ a.Id < b.Id)

RECURSIVE SortStesDesc(_)
SortStesDesc(s) ==
    IF s = {} THEN <<>>
    ELSE LET m == CHOOSE x \in s : \A o \in s : o = x \/ SteLess(o, x)
         IN <<m>> \o SortStesDesc(s \ {m})

\* IterateUnbatchedSendToEthereumsByContract: the pool entries of the
\* contract, highest fee first
UnbatchedByContract(p, token) ==
    SortStesDesc({ste \in p : ste.Erc20Fee.Contract = token})

\* the entries a callback visits that stops when its counter equals maxElements
RECURSIVE VisitUntil(_, _, _)
VisitUntil(seq, cnt, maxElements) ==
    IF seq = <<>> THEN <<>>
    ELSE <<Head(seq)>> \o
         (IF cnt + 1 = maxElements THEN <<>>
          ELSE VisitUntil(Tail(seq), cnt + 1, maxElements))

Range(seq) == {seq[i] : i \in 1..Len(seq)}

RECURSIVE SumFees(_)
SumFees(seq) ==
    IF seq = <<>> THEN 0 ELSE Head(seq).Erc20Fee.Amount + SumFees(Tail(seq))

\* BatchTx.GetFees: sum of the fee amounts of the batch's transactions
GetFees(batch) == SumFees(batch.Transactions)

\* -------------------------------------------------------------- keeper
GetOutgoingTx(store, key) == IF key \in DOMAIN store THEN store[key] ELSE Nil

SetOutgoingTx(store, batch) ==
    LET key == MakeBatchTxKey(HexToAddress(batch.TokenContract), batch.Nonce)
    IN [k \in DOMAIN store \cup {key} |-> IF k = key THEN batch ELSE store[k]]

DeleteOutgoingTx(store, key) == [k \in DOMAIN store \ {key} |-> store[k]]

\* BatchTx.GetStoreIndex
GetStoreIndex(batch) ==
    MakeBatchTxKey(HexToAddress(batch.TokenContract), batch.Nonce)

SetUnbatchedSendToEthereum(p, ste) == p \cup {ste}

DeleteUnbatchedSendToEthereum(p, id, fee) ==
    {ste \in p : ~(ste.Id = id /\ ste.Erc20Fee = fee)}

\* GetBatchFeesByTokenType
GetBatchFeesByTokenType(p, tokenContractAddr, maxElements) ==
    SumFees(VisitUntil(UnbatchedByContract(p, tokenContractAddr), 0, maxElements))

RECURSIVE LastByToken_AnyToken(_, _, _, _)
LastByToken_AnyToken(seq, token, lastBatch, lastNonce) ==
    IF seq = <<>> THEN lastBatch
    ELSE LET btx == Head(seq)
         IN IF btx.Nonce > lastNonce
            THEN LastByToken_AnyToken(Tail(seq), token, btx, btx.Nonce)
            ELSE LastByToken_AnyToken(Tail(seq), token, lastBatch, lastNonce)

\* the callback of GetLastOutgoingBatchByTokenType over the iterated batches
RECURSIVE LastByToken(_, _, _, _)
LastByToken(seq, token, lastBatch, lastNonce) ==
    IF seq = <<>> THEN lastBatch
    ELSE LET btx == Head(seq)
         IN IF HexToAddress(btx.TokenContract) = token /\ btx.Nonce > lastNonce
            THEN LastByToken(Tail(seq), token, btx, btx.Nonce)
            ELSE LastByToken(Tail(seq), token, lastBatch, lastNonce)

\* GetLastOutgoingBatchByTokenType
GetLastOutgoingBatchByTokenType(store, token) ==
    LastByToken(IterateOutgoingTxs(store), token, Nil, 0)

IncrementLastOutgoingBatchNonce_Skip(bz) ==
    LET id == IF bz # <<>> THEN BigEndianUint64(bz) ELSE 0
        newId == id + 2
    IN [newId |-> newId, bz |-> Uint64ToBigEndian(newId)]

IncrementLastOutgoingBatchNonce_NoStore(bz) ==
    LET id == IF bz # <<>> THEN BigEndianUint64(bz) ELSE 0
        newId == id + 1
    IN [newId |-> newId, bz |-> bz]

\* IncrementLastOutgoingBatchNonce: the new id and the bytes stored (the
\* uint64 sum wraps only after 2^64 calls, far above MaxNonce)
IncrementLastOutgoingBatchNonce(bz) ==
    LET id == IF bz # <<>> THEN BigEndianUint64(bz) ELSE 0
        newId == id + 1
    IN [newId |-> newId, bz |-> Uint64ToBigEndian(newId)]

getBatchTimeoutHeight_SingleDivision(currentCosmosHeight, heights, prm) ==
    IF heights.CosmosHeight = 0 \/ heights.EthereumHeight = 0 THEN 0
    ELSE LET projectedMillis ==
                 (currentCosmosHeight - heights.CosmosHeight) * prm.AverageBlockTime
         IN ((projectedMillis + prm.TargetBatchTimeout)
                 \div prm.AverageEthereumBlockTime) + heights.EthereumHeight

getBatchTimeoutHeight_BothZero(currentCosmosHeight, heights, prm) ==
    IF heights.CosmosHeight = 0 /\ heights.EthereumHeight = 0 THEN 0
    ELSE LET projectedMillis ==
                 (currentCosmosHeight - heights.CosmosHeight) * prm.AverageBlockTime
             projectedCurrentEthereumHeight ==
                 (projectedMillis \div prm.AverageEthereumBlockTime)
                     + heights.EthereumHeight
             blocksToAdd == prm.TargetBatchTimeout \div prm.AverageEthereumBlockTime
         IN projectedCurrentEthereumHeight + blocksToAdd

\* getBatchTimeoutHeight (uint64 arithmetic: the observed Cosmos height is
\* never above the current one, and the products stay far below 2^64)
getBatchTimeoutHeight(currentCosmosHeight, heights, prm) ==
    IF heights.CosmosHeight = 0 \/ heights.EthereumHeight = 0 THEN 0
    ELSE LET projectedMillis ==
                 (currentCosmosHeight - heights.CosmosHeight) * prm.AverageBlockTime
             projectedCurrentEthereumHeight ==
                 (projectedMillis \div prm.AverageEthereumBlockTime)
                     + heights.EthereumHeight
             blocksToAdd == prm.TargetBatchTimeout \div prm.AverageEthereumBlockTime
         IN projectedCurrentEthereumHeight + blocksToAdd


\* types.UInt64Bytes: 8 bytes, most significant first
UInt64Bytes(n) == Uint64ToBigEndian_(n, 8)

\* types.UInt64FromBytes
UInt64FromBytes(bz) == BigEndianUint64_(bz, 0)

\* SetLastSlashedBatchBlockHeight: the bytes stored
SetLastSlashedBatchBlockHeight(height) == UInt64Bytes(height)

\* GetLastSlashedBatchBlockHeight
GetLastSlashedBatchBlockHeight(bz) ==
    IF bz = <<>> THEN 0 ELSE UInt64FromBytes(bz)

RECURSIVE UnSlashedVisit_Inclusive(_, _, _)
UnSlashedVisit_Inclusive(seq, lastSlashedBatchBlockHeight, maxHeight) ==
    IF seq = <<>> THEN <<>>
    ELSE LET batchTx == Head(seq)
             rest == UnSlashedVisit_Inclusive(Tail(seq), lastSlashedBatchBlockHeight,
                                              maxHeight)
         IN IF batchTx.Height <= maxHeight
               /\ batchTx.Height > lastSlashedBatchBlockHeight
            THEN <<batchTx>> \o rest ELSE rest

\* the callback of GetUnSlashedBatches over the iterated batches
RECURSIVE UnSlashedVisit(_, _, _)
UnSlashedVisit(seq, lastSlashedBatchBlockHeight, maxHeight) ==
    IF seq = <<>> THEN <<>>
    ELSE LET batchTx == Head(seq)
             rest == UnSlashedVisit(Tail(seq), lastSlashedBatchBlockHeight, maxHeight)
         IN IF batchTx.Height < maxHeight
               /\ batchTx.Height > lastSlashedBatchBlockHeight
            THEN <<batchTx>> \o rest ELSE rest

\* GetUnSlashedBatches
GetUnSlashedBatches(store, slashBz, maxHeight) ==
    UnSlashedVisit(IterateOutgoingTxs(store),
                   GetLastSlashedBatchBlockHeight(slashBz), maxHeight)

\* the keeper's view of the store while a handler runs
Ctx(p, store, bz) ==
    [pool |-> p, store |-> store, bz |-> bz, events |-> <<>>, panic |-> FALSE]

SetUnbatchedAll_ZeroFee(p, txs) ==
    p \cup {[txs[i] EXCEPT !.Erc20Fee.Amount = 0] : i \in 1..Len(txs)}

\* the loop of CancelBatchTx over batch.Transactions
RECURSIVE SetUnbatchedAll(_, _)
SetUnbatchedAll(p, txs) ==
    IF txs = <<>> THEN p
    ELSE SetUnbatchedAll(SetUnbatchedSendToEthereum(p, Head(txs)), Tail(txs))

CancelBatchTx_NoEvent(ctx, tokenContract, nonce) ==
    LET batch == GetOutgoingTx(ctx.store, MakeBatchTxKey(tokenContract, nonce))
    IN IF batch = Nil THEN [ctx EXCEPT !.panic = TRUE]
       ELSE [ctx EXCEPT
               !.pool = SetUnbatchedAll(ctx.pool, batch.Transactions),
               !.store = DeleteOutgoingTx(ctx.store, GetStoreIndex(batch))]

\* CancelBatchTx: a missing record is a nil *BatchTx, whose Transactions
\* field cannot be read
CancelBatchTx(ctx, tokenContract, nonce) ==
    LET batch == GetOutgoingTx(ctx.store, MakeBatchTxKey(tokenContract, nonce))
    IN IF batch = Nil THEN [ctx EXCEPT !.panic = TRUE]
       ELSE [ctx EXCEPT
               !.pool = SetUnbatchedAll(ctx.pool, batch.Transactions),
               !.store = DeleteOutgoingTx(ctx.store, GetStoreIndex(batch)),
               !.events = Append(ctx.events, <<"outgoing_batch_canceled", nonce>>)]

ExecutedVisit_OwnToken(ctx, btx, batchTx, tokenContract) ==
    IF batchTx = Nil THEN [ctx EXCEPT !.panic = TRUE]
    ELSE IF btx.Nonce < batchTx.Nonce
         THEN CancelBatchTx(ctx, HexToAddress(btx.TokenContract), btx.Nonce)
         ELSE ctx

ExecutedVisit_Inclusive(ctx, btx, batchTx, tokenContract) ==
    IF batchTx = Nil THEN [ctx EXCEPT !.panic = TRUE]
    ELSE IF btx.Nonce <= batchTx.Nonce /\ batchTx.TokenContract = Hex(tokenContract)
         THEN CancelBatchTx(ctx, tokenContract, btx.Nonce)
         ELSE ctx

ExecutedVisit_NoCascade(ctx, btx, batchTx, tokenContract) ==
    IF batchTx = Nil THEN [ctx EXCEPT !.panic = TRUE] ELSE ctx

\* the callback of BatchTxExecuted for one iterated batch
ExecutedVisit(ctx, btx, batchTx, tokenContract) ==
    IF batchTx = Nil THEN [ctx EXCEPT !.panic = TRUE]
    ELSE IF btx.Nonce < batchTx.Nonce /\ batchTx.TokenContract = Hex(tokenContract)
         THEN CancelBatchTx(ctx, tokenContract, btx.Nonce)
         ELSE ctx

RECURSIVE ExecutedIterate(_, _, _, _)
ExecutedIterate(seq, ctx, batchTx, tokenContract) ==
    IF seq = <<>> \/ ctx.panic THEN ctx
    ELSE ExecutedIterate(Tail(seq),
                         ExecutedVisit(ctx, Head(seq), batchTx, tokenContract),
                         batchTx, tokenContract)

BatchTxExecuted_IgnoreMissing(ctx, tokenContract, nonce) ==
    LET batchTx == GetOutgoingTx(ctx.store, MakeBatchTxKey(tokenContract, nonce))
        after == ExecutedIterate(IterateOutgoingTxs(ctx.store), ctx, batchTx,
                                 tokenContract)
    IN IF batchTx = Nil THEN ctx
       ELSE IF after.panic THEN after
       ELSE [after EXCEPT !.store = DeleteOutgoingTx(after.store, GetStoreIndex(batchTx))]

\* BatchTxExecuted
BatchTxExecuted(ctx, tokenContract, nonce) ==
    LET batchTx == GetOutgoingTx(ctx.store, MakeBatchTxKey(tokenContract, nonce))
        after == ExecutedIterate(IterateOutgoingTxs(ctx.store), ctx, batchTx,
                                 tokenContract)
    IN IF after.panic THEN after
       ELSE IF batchTx = Nil THEN [after EXCEPT !.panic = TRUE]
       ELSE [after EXCEPT !.store = DeleteOutgoingTx(after.store, GetStoreIndex(batchTx))]

DeleteUnbatchedAll_KeepFirst(p, txs) ==
    IF txs = <<>> THEN p
    ELSE {ste \in p : ste = Head(txs) \/ ste \notin Range(txs)}

\* the DeleteUnbatchedSendToEthereum calls of the selection callback
RECURSIVE DeleteUnbatchedAll(_, _)
DeleteUnbatchedAll(p, txs) ==
    IF txs = <<>> THEN p
    ELSE DeleteUnbatchedAll(
             DeleteUnbatchedSendToEthereum(p, Head(txs).Id, Head(txs).Erc20Fee),
             Tail(txs))

\* the entries the selection callback of BuildBatchTx appends: it stops when
\* len(selectedStes) == maxElements
SelectStes_OffByOne(p, contractAddress, maxElements) ==
    VisitUntil(UnbatchedByContract(p, contractAddress), -1, maxElements)

SelectStes(p, contractAddress, maxElements) ==
    VisitUntil(UnbatchedByContract(p, contractAddress), 0, maxElements)

BuildBatchTx_SkipEmpty(ctx, contractAddress, maxElements, height, heights, prm) ==
    LET lastBatch == GetLastOutgoingBatchByTokenType(ctx.store, contractAddress)
    IN IF \/ SelectStes(ctx.pool, contractAddress, maxElements) = <<>>
          \/ /\ lastBatch # Nil
             /\ GetFees(lastBatch) >=
                    GetBatchFeesByTokenType(ctx.pool, contractAddress, maxElements)
       THEN [ctx |-> ctx, ret |-> Nil]
       ELSE LET selectedStes == SelectStes(ctx.pool, contractAddress, maxElements)
                inc == IncrementLastOutgoingBatchNonce(ctx.bz)
                batch == [Nonce |-> inc.newId,
                          Timeout |-> getBatchTimeoutHeight(height, heights, prm),
                          Transactions |-> selectedStes,
                          TokenContract |-> Hex(contractAddress),
                          Height |-> height]
            IN [ctx |-> [ctx EXCEPT
                          !.pool = DeleteUnbatchedAll(ctx.pool, selectedStes),
                          !.bz = inc.bz,
                          !.store = SetOutgoingTx(ctx.store, batch),
                          !.events = Append(ctx.events,
                                            <<"outgoing_batch", batch.Nonce>>)],
                ret |-> batch]

BuildBatchTx_GT(ctx, contractAddress, maxElements, height, heights, prm) ==
    LET lastBatch == GetLastOutgoingBatchByTokenType(ctx.store, contractAddress)
    IN IF lastBatch # Nil
          /\ GetFees(lastBatch) >
                 GetBatchFeesByTokenType(ctx.pool, contractAddress, maxElements)
       THEN [ctx |-> ctx, ret |-> Nil]
       ELSE LET selectedStes == SelectStes(ctx.pool, contractAddress, maxElements)
                inc == IncrementLastOutgoingBatchNonce(ctx.bz)
                batch == [Nonce |-> inc.newId,
                          Timeout |-> getBatchTimeoutHeight(height, heights, prm),
                          Transactions |-> selectedStes,
                          TokenContract |-> Hex(contractAddress),
                          Height |-> height]
            IN [ctx |-> [ctx EXCEPT
                          !.pool = DeleteUnbatchedAll(ctx.pool, selectedStes),
                          !.bz = inc.bz,
                          !.store = SetOutgoingTx(ctx.store, batch),
                          !.events = Append(ctx.events,
                                            <<"outgoing_batch", batch.Nonce>>)],
                ret |-> batch]

BuildBatchTx_NonceFirst(ctx, contractAddress, maxElements, height, heights, prm) ==
    LET lastBatch == GetLastOutgoingBatchByTokenType(ctx.store, contractAddress)
    IN IF lastBatch # Nil
          /\ GetFees(lastBatch) >=
                 GetBatchFeesByTokenType(ctx.pool, contractAddress, maxElements)
       THEN [ctx |-> [ctx EXCEPT !.bz = IncrementLastOutgoingBatchNonce(ctx.bz).bz],
             ret |-> Nil]
       ELSE LET selectedStes == SelectStes(ctx.pool, contractAddress, maxElements)
                inc == IncrementLastOutgoingBatchNonce(ctx.bz)
                batch == [Nonce |-> inc.newId,
                          Timeout |-> getBatchTimeoutHeight(height, heights, prm),
                          Transactions |-> selectedStes,
                          TokenContract |-> Hex(contractAddress),
                          Height |-> height]
            IN [ctx |-> [ctx EXCEPT
                          !.pool = DeleteUnbatchedAll(ctx.pool, selectedStes),
                          !.bz = inc.bz,
                          !.store = SetOutgoingTx(ctx.store, batch),
                          !.events = Append(ctx.events,
                                            <<"outgoing_batch", batch.Nonce>>)],
                ret |-> batch]

\* BuildBatchTx: the store afterwards and the returned batch (Nil for nil)
BuildBatchTx(ctx, contractAddress, maxElements, height, heights, prm) ==
    LET lastBatch == GetLastOutgoingBatchByTokenType(ctx.store, contractAddress)
    IN IF lastBatch # Nil
          /\ GetFees(lastBatch) >=
                 GetBatchFeesByTokenType(ctx.pool, contractAddress, maxElements)
       THEN [ctx |-> ctx, ret |-> Nil]
       ELSE LET selectedStes == SelectStes(ctx.pool, contractAddress, maxElements)
                inc == IncrementLastOutgoingBatchNonce(ctx.bz)
                batch == [Nonce |-> inc.newId,
                          Timeout |-> getBatchTimeoutHeight(height, heights, prm),
                          Transactions |-> selectedStes,
                          TokenContract |-> Hex(contractAddress),
                          Height |-> height]
            IN [ctx |-> [ctx EXCEPT
                          !.pool = DeleteUnbatchedAll(ctx.pool, selectedStes),
                          !.bz = inc.bz,
                          !.store = SetOutgoingTx(ctx.store, batch),
                          !.events = Append(ctx.events,
                                            <<"outgoing_batch", batch.Nonce>>)],
                ret |-> batch]

\* ------------------------------------------------------------ the machine
Call(op, token, nonce, maxElements, ret, events) ==
    [op |-> op, token |-> token, nonce |-> nonce, maxElements |-> maxElements,
     ret |-> ret, events |-> events, maxHeight |-> 0,
     built |-> IF op = "cancel" /\ last.op = "build" /\ last.ret # Nil
                  /\ last.token = token /\ last.ret.Nonce = nonce
               THEN nonce ELSE 0,
     pool |-> pool, outgoingTx |-> outgoingTx, nonceStore |-> nonceStore,
     slashStore |-> slashStore]

NoCall == [op |-> "none", token |-> 0, nonce |-> 0, maxElements |-> 0,
           ret |-> Nil, events |-> <<>>, maxHeight |-> 0, built |-> 0,
           pool |-> {}, outgoingTx |-> <<>>, nonceStore |-> <<>>,
           slashStore |-> <<>>]

Init ==
    /\ pool = {}
    /\ outgoingTx = <<>>
    /\ nonceStore = <<>>
    /\ lastId = 0
    /\ blockHeight = 1
    /\ observed = [CosmosHeight |-> 0, EthereumHeight |-> 0]
    /\ params = DefaultParams
    /\ slashStore = <<>>
    /\ panicked = FALSE
    /\ last = NoCall
    /\ created = <<>>
    /\ executed = {}

\* a SendToEthereum enters the unbatched pool under the next id
AddToOutgoingPool(token, fee, amount, recipient) ==
    /\ ~panicked
    /\ lastId < MaxTx
    /\ lastId' = lastId + 1
    /\ pool' = SetUnbatchedSendToEthereum(pool,
                  [Id |-> lastId + 1,
                   EthereumRecipient |-> recipient,
                   Erc20Token |-> [Contract |-> token, Amount |-> amount],
                   Erc20Fee |-> [Contract |-> token, Amount |-> fee]])
    /\ last' = NoCall
    /\ UNCHANGED <<outgoingTx, nonceStore, blockHeight, observed, params,
                   slashStore, panicked, created, executed>>

BuildBatchTxStep(token, maxElements) ==
    /\ ~panicked
    /\ LET r == BuildBatchTx(Ctx(pool, outgoingTx, nonceStore), token,
                             maxElements, blockHeight, observed, params)
       IN /\ r.ret # Nil => Len(created) < MaxNonce
          /\ pool' = r.ctx.pool
          /\ outgoingTx' = r.ctx.store
          /\ nonceStore' = r.ctx.bz
          /\ created' = IF r.ret = Nil THEN created
                        ELSE Append(created, r.ret.Nonce)
          /\ last' = Call("build", token, 0, maxElements, r.ret, r.ctx.events)
    /\ UNCHANGED <<lastId, blockHeight, observed, params, slashStore, panicked,
                   executed>>

BatchTxExecutedStep(token, nonce) ==
    /\ ~panicked
    /\ LET r == BatchTxExecuted(Ctx(pool, outgoingTx, nonceStore), token, nonce)
       IN /\ pool' = r.pool
          /\ outgoingTx' = r.store
          /\ nonceStore' = r.bz
          /\ panicked' = r.panic
          /\ executed' =
                 LET batchTx == GetOutgoingTx(outgoingTx, MakeBatchTxKey(token, nonce))
                 IN IF r.panic \/ batchTx = Nil THEN executed
                    ELSE executed \cup {tx.Id : tx \in Range(batchTx.Transactions)}
          /\ last' = Call("execute", token, nonce, 0, Nil, r.events)
    /\ UNCHANGED <<lastId, blockHeight, observed, params, slashStore, created>>

CancelBatchTxStep(token, nonce) ==
    /\ ~panicked
    /\ LET r == CancelBatchTx(Ctx(pool, outgoingTx, nonceStore), token, nonce)
       IN /\ pool' = r.pool
          /\ outgoingTx' = r.store
          /\ nonceStore' = r.bz
          /\ panicked' = r.panic
          /\ last' = Call("cancel", token, nonce, 0, Nil, r.events)
    /\ UNCHANGED <<lastId, blockHeight, observed, params, slashStore, created,
                   executed>>

Recipients == {"0xr"}
Amounts == {10}

Next ==
    \/ \E t \in Tokens, f \in Fees, a \in Amounts, r \in Recipients :
           AddToOutgoingPool(t, f, a, r)
    \/ \E t \in Tokens, n \in MaxElements : BuildBatchTxStep(t, n)
    \/ \E t \in Tokens, k \in Nonces : BatchTxExecutedStep(t, k)
    \/ \E t \in Tokens, k \in Nonces : CancelBatchTxStep(t, k)

Spec == Init /\ [][Next]_vars

\* --------------------------------------------- blocks and the slash height
\* the chain moves to the next block
NextBlock ==
    /\ ~panicked
    /\ blockHeight < MaxHeight
    /\ blockHeight' = blockHeight + 1
    /\ last' = NoCall
    /\ UNCHANGED <<pool, outgoingTx, nonceStore, lastId, observed, params,
                   slashStore, panicked, created, executed>>

SetLastSlashedBatchBlockHeightStep(height) ==
    /\ ~panicked
    /\ slashStore' = SetLastSlashedBatchBlockHeight(height)
    /\ last' = NoCall
    /\ UNCHANGED <<pool, outgoingTx, nonceStore, lastId, blockHeight, observed,
                   params, panicked, created, executed>>

GetUnSlashedBatchesStep(maxHeight) ==
    /\ ~panicked
    /\ last' = [Call("unslashed", 0, 0, 0,
                     GetUnSlashedBatches(outgoingTx, slashStore, maxHeight), <<>>)
                    EXCEPT !.maxHeight = maxHeight]
    /\ UNCHANGED <<pool, outgoingTx, nonceStore, lastId, blockHeight, observed,
                   params, slashStore, panicked, created, executed>>

\* the batch handlers on an empty pool, over the blocks of the chain, with
\* the slash height set and the unslashed batches queried in between
NextSlash ==
    \/ NextBlock
    \/ \E h \in 1..MaxHeight : SetLastSlashedBatchBlockHeightStep(h)
    \/ \E h \in 0..(MaxHeight + 1) : GetUnSlashedBatchesStep(h)
    \/ \E t \in Tokens : BuildBatchTxStep(t, 0)
    \/ \E t \in Tokens, k \in Nonces : BatchTxExecutedStep(t, k)
    \/ \E t \in Tokens, k \in Nonces : CancelBatchTxStep(t, k)

SpecSlash == Init /\ [][NextSlash]_vars

\* ------------------------------------------------------ the batch timeout
TimeoutHeights == {100, 101, 103, 160}      \* current Cosmos heights
ObservedCosmosHeights == {0, 100}
EthereumHeights == {0, 1000}
ParamSettings ==
    {DefaultParams,
     [AverageBlockTime |-> 6000, AverageEthereumBlockTime |-> 13000,
      TargetBatchTimeout |-> 50000]}

\* the empty store at some block, with some heights observed at or before
\* that block and some parameters
InitTimeout ==
    /\ pool = {}
    /\ outgoingTx = <<>>
    /\ nonceStore = <<>>
    /\ lastId = 0
    /\ blockHeight \in TimeoutHeights
    /\ observed \in [CosmosHeight : ObservedCosmosHeights,
                     EthereumHeight : EthereumHeights]
    /\ observed.CosmosHeight <= blockHeight
    /\ params \in ParamSettings
    /\ slashStore = <<>>
    /\ panicked = FALSE
    /\ last = NoCall
    /\ created = <<>>
    /\ executed = {}

\* the oracle records an Ethereum height at the current block
SetLastObservedEthereumBlockHeightStep(ethereumHeight) ==
    /\ ~panicked
    /\ observed' = [CosmosHeight |-> blockHeight, EthereumHeight |-> ethereumHeight]
    /\ observed' # observed
    /\ last' = NoCall
    /\ UNCHANGED <<pool, outgoingTx, nonceStore, lastId, blockHeight, params,
                   slashStore, panicked, created, executed>>

NextTimeout ==
    \/ \E e \in EthereumHeights : SetLastObservedEthereumBlockHeightStep(e)
    \/ \E t \in Tokens : BuildBatchTxStep(t, 0)

SpecTimeout == InitTimeout /\ [][NextTimeout]_vars

\* ---------------------------------------------------------- properties
\* the outstanding batches of a token contract in a store
BatchesOf(store, token) ==
    {store[k] : k \in {x \in DOMAIN store : x[1] = token}}

PoolOf(p, token) == {ste \in p : ste.Erc20Fee.Contract = token}

LastKey == MakeBatchTxKey(last.token, last.nonce)

\* C1: BatchTxExecuted on an outstanding batch (T, k) does not panic, and
\* afterwards (T, k) is gone and no outstanding batch of T has a nonce
\* below k, whatever batches other token contracts have.
C1_ExecuteOutstandingCompletes ==
    (last.op = "execute" /\ LastKey \in DOMAIN last.outgoingTx) =>
        /\ ~panicked
        /\ \A b \in BatchesOf(outgoingTx, last.token) : b.Nonce > last.nonce
        /\ \A k \in DOMAIN outgoingTx : k[2] # last.nonce

\* C2: BatchTxExecuted(T, k) leaves the outstanding batches, their member
\* transfers and the unbatched pools of every token contract other than T
\* as they were before the call.
C2_ExecuteLeavesOtherTokens ==
    last.op = "execute" =>
        \A u \in Tokens \ {last.token} :
            /\ {k \in DOMAIN outgoingTx : k[1] = u}
                   = {k \in DOMAIN last.outgoingTx : k[1] = u}
            /\ \A k \in DOMAIN outgoingTx :
                   k[1] = u => outgoingTx[k] = last.outgoingTx[k]
            /\ PoolOf(pool, u) = PoolOf(last.pool, u)

\* a batch was executed while another token contract had an outstanding
\* batch holding transfers
C2_Witness ==
    /\ last.op = "execute" /\ ~panicked
    /\ \E k \in DOMAIN outgoingTx :
           k[1] # last.token /\ outgoingTx[k].Transactions # <<>>

\* number of places that hold the transfer with the given id
Holders(id) ==
    Cardinality({ste \in pool : ste.Id = id})
    + Cardinality({<<k, i>> \in
          UNION {{k} \X (1..Len(outgoingTx[k].Transactions)) : k \in DOMAIN outgoingTx} :
              outgoingTx[k].Transactions[i].Id = id})

\* C3: every transfer created and not finalized by an execution is in the
\* unbatched pool of its token or in exactly one outstanding batch of its
\* token, never in both and never in neither.
C3_TransferInExactlyOnePlace ==
    /\ \A id \in 1..lastId : id \notin executed => Holders(id) = 1
    /\ \A k \in DOMAIN outgoingTx :
           \A i \in 1..Len(outgoingTx[k].Transactions) :
               outgoingTx[k].Transactions[i].Erc20Fee.Contract = k[1]

\* after a cancellation one transfer is back in the pool and another one
\* is still in an outstanding batch
C3_Witness ==
    /\ last.op = "cancel" /\ ~panicked
    /\ last.outgoingTx[LastKey].Transactions # <<>>
    /\ \E k \in DOMAIN outgoingTx : outgoingTx[k].Transactions # <<>>

\* C4: BuildBatchTx returns nil when the last batch of the token exists and
\* its fees are >= GetBatchFeesByTokenType; otherwise it returns a batch
\* whose fees equal GetBatchFeesByTokenType as it was before the call.
C4_BuildGuardAndFees ==
    last.op = "build" =>
        LET cur == GetLastOutgoingBatchByTokenType(last.outgoingTx, last.token)
            agg == GetBatchFeesByTokenType(last.pool, last.token, last.maxElements)
        IN IF cur # Nil /\ GetFees(cur) >= agg
           THEN last.ret = Nil
           ELSE last.ret # Nil /\ GetFees(last.ret) = agg

\* a batch was built over a less profitable outstanding batch, leaving
\* entries in the pool
C4_Witness ==
    /\ last.op = "build" /\ last.ret # Nil
    /\ GetLastOutgoingBatchByTokenType(last.outgoingTx, last.token) # Nil
    /\ Len(last.ret.Transactions) < Cardinality(PoolOf(last.pool, last.token))

\* C5: the i-th IncrementLastOutgoingBatchNonce call returns i, and the
\* stored counter is the last value returned.
C5_NoncesCountFromOne ==
    /\ \A i \in 1..Len(created) : created[i] = i
    /\ IF created = <<>> THEN nonceStore = <<>>
       ELSE /\ Len(nonceStore) = 8
            /\ BigEndianUint64(nonceStore) = created[Len(created)]

\* the counter was incremented more than once
C5_Witness == Len(created) >= 2

\* C6: every batch created has a nonce above the nonce of every batch
\* created before it, whatever the token and whatever became of the earlier
\* batches, so no two batches ever share a nonce.
C6_NoncesNeverReused ==
    /\ \A i, j \in 1..Len(created) : i < j => created[i] < created[j]
    /\ \A k \in DOMAIN outgoingTx : outgoingTx[k].Nonce \in Range(created)
    /\ \A k1, k2 \in DOMAIN outgoingTx : k1[2] = k2[2] => k1 = k2
    /\ (last.op = "build" /\ last.ret # Nil) =>
           \A k \in DOMAIN last.outgoingTx : k[2] < last.ret.Nonce

\* a batch was built after an earlier batch had been executed or canceled
C6_Witness ==
    /\ last.op = "build" /\ last.ret # Nil
    /\ \E i \in 1..Len(created) :
           /\ created[i] # last.ret.Nonce
           /\ \A k \in DOMAIN last.outgoingTx : k[2] # created[i]

\* C7: CancelBatchTx on an outstanding batch puts the batch's transfers,
\* unchanged, back into the unbatched pool and deletes the batch record;
\* canceling the batch that the call just before built restores the pool
\* and the outstanding batches of before that build.
C7_CancelRestores ==
    [][(last'.op = "cancel" /\ MakeBatchTxKey(last'.token, last'.nonce) \in DOMAIN outgoingTx) =>
          LET key == MakeBatchTxKey(last'.token, last'.nonce)
          IN /\ ~panicked'
             /\ pool' = pool \cup Range(outgoingTx[key].Transactions)
             /\ outgoingTx' = [k \in DOMAIN outgoingTx \ {key} |-> outgoingTx[k]]
             /\ (last.op = "build" /\ last.ret # Nil
                 /\ last.token = last'.token /\ last.ret.Nonce = last'.nonce) =>
                    (pool' = last.pool /\ outgoingTx' = last.outgoingTx)]_vars

\* the batch just built, holding transfers, was canceled right away
C7_Witness ==
    /\ last.op = "cancel" /\ ~panicked
    /\ last.built = last.nonce
    /\ last.outgoingTx[LastKey].Transactions # <<>>

\* C8: the transfers of an executed batch are in no unbatched pool and in
\* no outstanding batch, after the call and ever after, while the transfers
\* of the earlier batches of the token that the execution canceled are in
\* the unbatched pool after the call.
C8_ExecutedTransfersFinalized ==
    /\ \A ste \in pool : ste.Id \notin executed
    /\ \A k \in DOMAIN outgoingTx :
           \A i \in 1..Len(outgoingTx[k].Transactions) :
               outgoingTx[k].Transactions[i].Id \notin executed
    /\ (last.op = "execute" /\ ~panicked) =>
           /\ \A ste \in Range(last.outgoingTx[LastKey].Transactions) :
                  ste.Id \in executed
           /\ \A b \in BatchesOf(last.outgoingTx, last.token) :
                  b.Nonce < last.nonce => Range(b.Transactions) \subseteq pool

\* an execution finalized transfers and canceled an earlier batch of the
\* token that held transfers
C8_Witness ==
    /\ last.op = "execute" /\ ~panicked
    /\ last.outgoingTx[LastKey].Transactions # <<>>
    /\ \E b \in BatchesOf(last.outgoingTx, last.token) :
           b.Nonce < last.nonce /\ b.Transactions # <<>>

\* C9: BatchTxExecuted for a key with no outstanding batch panics, and the
\* pool, the outstanding batches and the nonce counter are then those of
\* before the call.
C9_ExecuteMissingPanics ==
    (last.op = "execute" /\ LastKey \notin DOMAIN last.outgoingTx) =>
        /\ panicked
        /\ pool = last.pool
        /\ outgoingTx = last.outgoingTx
        /\ nonceStore = last.nonceStore

\* an execution was asked for a missing key while the token had an
\* outstanding batch with a smaller nonce
C9_Witness ==
    /\ last.op = "execute" /\ LastKey \notin DOMAIN last.outgoingTx
    /\ \E k \in DOMAIN last.outgoingTx : k[1] = last.token /\ k[2] < last.nonce

\* C10: GetLastOutgoingBatchByTokenType returns the one outstanding batch
\* of the token with the highest nonce, and nil exactly when the token has
\* no outstanding batch; batches of other tokens do not matter.
C10_LastBatchIsHighestOfToken ==
    \A t \in Tokens :
        LET r == GetLastOutgoingBatchByTokenType(outgoingTx, t)
            keys == {k \in DOMAIN outgoingTx : k[1] = t}
        IN /\ (r = Nil) <=> (keys = {})
           /\ keys # {} =>
                 /\ \E k \in keys : r = outgoingTx[k]
                 /\ \A k \in keys : k[2] <= r.Nonce
                 /\ Cardinality({k \in keys : k[2] = r.Nonce}) = 1

\* a token has an outstanding batch and another token has a batch with a
\* higher nonce
C10_Witness ==
    \E t \in Tokens :
        /\ \E k \in DOMAIN outgoingTx : k[1] = t
        /\ \E k \in DOMAIN outgoingTx :
               k[1] # t /\ \A j \in DOMAIN outgoingTx : j[1] = t => j[2] < k[2]

\* C11: GetUnSlashedBatches(maxHeight) returns, each once, exactly the
\* outstanding batches whose Height is above the last slashed batch block
\* height and below maxHeight, and writes nothing.
C11_UnSlashedBatchesInRange ==
    last.op = "unslashed" =>
        LET wm == IF slashStore = <<>> THEN 0 ELSE BigEndianUint64(slashStore)
            inRange == {b \in {outgoingTx[k] : k \in DOMAIN outgoingTx} :
                            wm < b.Height /\ b.Height < last.maxHeight}
        IN /\ Range(last.ret) = inRange
           /\ Len(last.ret) = Cardinality(inRange)
           /\ pool = last.pool
           /\ outgoingTx = last.outgoingTx
           /\ nonceStore = last.nonceStore
           /\ slashStore = last.slashStore

\* the query returned a batch and left out an outstanding batch created at
\* the last slashed batch block height
C11_Witness ==
    /\ last.op = "unslashed" /\ last.ret # <<>>
    /\ slashStore # <<>>
    /\ \E k \in DOMAIN outgoingTx :
           outgoingTx[k].Height = BigEndianUint64(slashStore)

\* C12: with both observed heights non-zero a built batch's Timeout is
\* observed Ethereum height + floor((current - observed Cosmos height) *
\* AverageBlockTime / AverageEthereumBlockTime) + floor(TargetBatchTimeout
\* / AverageEthereumBlockTime); it is 3900 for block times 5000 and 15000,
\* target 43200000, observed (100, 1000) and current height 160.
C12_TimeoutProjection ==
    (last.op = "build" /\ last.ret # Nil
     /\ observed.CosmosHeight # 0 /\ observed.EthereumHeight # 0) =>
        /\ last.ret.Timeout =
               observed.EthereumHeight
               + (((blockHeight - observed.CosmosHeight) * params.AverageBlockTime)
                      \div params.AverageEthereumBlockTime)
               + (params.TargetBatchTimeout \div params.AverageEthereumBlockTime)
        /\ (/\ params = [AverageBlockTime |-> 5000,
                         AverageEthereumBlockTime |-> 15000,
                         TargetBatchTimeout |-> 43200000]
            /\ observed = [CosmosHeight |-> 100, EthereumHeight |-> 1000]
            /\ blockHeight = 160) => last.ret.Timeout = 3900

\* a batch was built at height 160 with (100, 1000) observed
C12_Witness ==
    /\ last.op = "build" /\ last.ret # Nil
    /\ observed = [CosmosHeight |-> 100, EthereumHeight |-> 1000]
    /\ blockHeight = 160
    /\ params = DefaultParams

\* C13: with an observed height of 0, in either component, the timeout
\* height is 0 at every current height and for all parameters, and a
\* batch built then has Timeout 0.
C13_ZeroObservedGivesZero ==
    (observed.CosmosHeight = 0 \/ observed.EthereumHeight = 0) =>
        /\ getBatchTimeoutHeight(blockHeight, observed, params) = 0
        /\ (last.op = "build" /\ last.ret # Nil) => last.ret.Timeout = 0

\* a batch was built with only the Ethereum height observed as 0
C13_Witness ==
    /\ last.op = "build" /\ last.ret # Nil
    /\ observed.CosmosHeight # 0 /\ observed.EthereumHeight = 0

Min(a, b) == IF a <= b THEN a ELSE b

\* C14: a batch built by BuildBatchTx(T, maxElements), maxElements >= 0,
\* holds the first min(maxElements, pool size) entries of T's pool in fee
\* order, hence at most maxElements of them, and exactly those are taken
\* out of the pool.
C14_BuildTakesAtMostMaxElements ==
    (last.op = "build" /\ last.ret # Nil) =>
        LET sorted == UnbatchedByContract(last.pool, last.token)
            m == Min(last.maxElements, Len(sorted))
        IN /\ last.ret.Transactions = SubSeq(sorted, 1, m)
           /\ Len(last.ret.Transactions) <= last.maxElements
           /\ pool = last.pool \ Range(SubSeq(sorted, 1, m))

\* C15: GetBatchFeesByTokenType(T, limit), limit >= 0, is the sum of the
\* fees of the first min(limit, pool size) entries of T's pool in fee
\* order.
C15_FeesOfAtMostLimitEntries ==
    \A t \in Tokens, limit \in MaxElements :
        LET sorted == UnbatchedByContract(pool, t)
        IN GetBatchFeesByTokenType(pool, t, limit)
               = SumFees(SubSeq(sorted, 1, Min(limit, Len(sorted))))

\* C16: BuildBatchTx for a token without an outstanding batch creates and
\* stores a batch under a nonce never used before; with an empty pool the
\* batch has no transactions and fees 0.
C16_BuildWithoutOutstandingCreates ==
    (last.op = "build" /\ BatchesOf(last.outgoingTx, last.token) = {}) =>
        /\ last.ret # Nil
        /\ last.ret.Nonce = Len(created)
        /\ \A i \in 1..(Len(created) - 1) : created[i] < last.ret.Nonce
        /\ MakeBatchTxKey(last.token, last.ret.Nonce) \in DOMAIN outgoingTx
        /\ outgoingTx[MakeBatchTxKey(last.token, last.ret.Nonce)] = last.ret
        /\ PoolOf(last.pool, last.token) = {} =>
               (last.ret.Transactions = <<>> /\ GetFees(last.ret) = 0)

\* a batch was built from an empty pool
C16_Witness ==
    /\ last.op = "build" /\ last.ret # Nil
    /\ PoolOf(last.pool, last.token) = {}
    /\ last.ret.Transactions = <<>>

\* C17: a build that creates a batch emits one outgoing_batch event with
\* the batch's nonce and a build that returns nil emits nothing; every
\* cancellation, direct or made by an execution, emits one
\* outgoing_batch_canceled event with the canceled nonce, and an execution
\* emits none for the executed batch.
C17_OneEventPerBatchChange ==
    /\ last.op = "build" =>
           last.events = IF last.ret = Nil THEN <<>>
                         ELSE <<<<"outgoing_batch", last.ret.Nonce>>>>
    /\ (last.op = "cancel" /\ ~panicked) =>
           last.events = <<<<"outgoing_batch_canceled", last.nonce>>>>
    /\ (last.op = "execute" /\ ~panicked) =>
           LET earlier == {b.Nonce : b \in {x \in BatchesOf(last.outgoingTx, last.token) :
                                              x.Nonce < last.nonce}}
           IN /\ Range(last.events) = {<<"outgoing_batch_canceled", n>> : n \in earlier}
              /\ Len(last.events) = Cardinality(earlier)

\* an execution canceled an earlier batch
C17_Witness ==
    /\ last.op = "execute" /\ ~panicked
    /\ last.events # <<>>

LastNonce(bz) == IF bz = <<>> THEN 0 ELSE BigEndianUint64(bz)

\* the counter is at least k and every outstanding batch of the token has a
\* nonce above k
AllAbove(store, counter, token, k) ==
    /\ counter >= k
    /\ \A b \in BatchesOf(store, token) : b.Nonce > k

\* C19: the nonces of the executed batches of a token strictly increase in
\* execution order: an execution that completes acts on an outstanding
\* batch (T, k) and leaves the counter at k or above and every outstanding
\* batch of T above k, and no later step undoes that for any token and k,
\* so no batch (T, j) with j <= k is outstanding to be executed later.
C19_ExecutedNoncesIncrease ==
    [][LET counter == LastNonce(nonceStore)
           counterAfter == LastNonce(nonceStore')
       IN /\ (outgoingTx' # outgoingTx \/ nonceStore' # nonceStore) =>
                 \A t \in Tokens, k \in 0..MaxNonce :
                     AllAbove(outgoingTx, counter, t, k)
                         => AllAbove(outgoingTx', counterAfter, t, k)
          /\ (last'.op = "execute" /\ ~panicked') =>
                 /\ MakeBatchTxKey(last'.token, last'.nonce) \in DOMAIN last'.outgoingTx
                 /\ AllAbove(outgoingTx', counterAfter, last'.token, last'.nonce)]_vars

\* an execution completed while the token had an earlier outstanding batch
C19_Witness ==
    /\ last.op = "execute" /\ ~panicked
    /\ \E b \in BatchesOf(last.outgoingTx, last.token) : b.Nonce < last.nonce

\* C20: BuildBatchTx returning nil leaves the nonce counter, the unbatched
\* pools and the outstanding batches as they were.
C20_RefusedBuildChangesNothing ==
    (last.op = "build" /\ last.ret = Nil) =>
        /\ nonceStore = last.nonceStore
        /\ pool = last.pool
        /\ outgoingTx = last.outgoingTx

\* a build was refused while the token's pool held entries
C20_Witness ==
    /\ last.op = "build" /\ last.ret = Nil
    /\ PoolOf(last.pool, last.token) # {}

====
